---- MODULE Spec2Model ----
(***************************************************************************)
(* Model of roundtrip.py: the e-mail round trip prober.                    *)
(*                                                                         *)
(* Threads.  main() starts the SMTP server with                           *)
(* aiosmtpd.controller.Controller.start(), which runs the server's event   *)
(* loop in a thread of its own, and then runs the emitter (send_probe) and *)
(* the HTTP views on the main thread's event loop (aiohttp.web.run_app).   *)
(* So handle_DATA runs concurrently with the emitter and the views, on     *)
(* data shared without a lock.  The model has the two threads:             *)
(*   main thread  a step is the code a coroutine runs between two          *)
(*                suspension points; a blocking call (the MX query, the    *)
(*                reverse lookup of the detail view) ends a step too,      *)
(*                because the SMTP thread runs during it;                  *)
(*   SMTP thread  handle_DATA awaits nothing, so calls do not overlap;     *)
(*                each of its writes to shared data is a step.             *)
(*                                                                         *)
(* Time: time.time() is a float of seconds.  The model counts time in      *)
(* units of 1/Res millisecond, so that the truncations of the code         *)
(* (int(now), int(x * 1000) / 1000.0) lose something.  Arithmetic is exact *)
(* (binary floating point rounding is not modelled).                       *)
(* Stored values keep the unit the code gives them:                        *)
(*   sent_at, received_at   whole seconds (the code stores int(...))       *)
(*   duration               milliseconds (the code stores n / 1000.0)      *)
(*   last_email_received    clock units  (the code stores time.time())     *)
(***************************************************************************)
EXTENDS Integers, Sequences, FiniteSets, TLC

\* ---- bounds of the model ------------------------------------------------
\* Clock units per millisecond.
Res == 2
\* len(data.probes) >= 10000 in the source; scaled down so that eviction happens.
MAX_HISTORY == 2
\* Number of probe periods after the first the clock can run through.
MaxPeriods == 2
\* Number of mails the SMTP server hands to handle_DATA.
MaxMails == 2
\* data.probes[-30:] in the source; scaled down so that the window of the
\* detail view is shorter than the store.
MaxRows == 1

\* ---- program constants --------------------------------------------------
PROBE_FREQUENCY_SECONDS == 60
PROBE_EXPECTED_DELIVERY_TIME == 25
SMTPD_ME == "roundtrip@roundtrip.apache.org"
PROBE_TARGET == "infra-roundtrip@apache.org"
\* The factor of int((now - sent) * 1000) / 1000.0.
MilliPerSec == 1000

\* Clock units per second.
Sec == MilliPerSec * Res
\* Python's None.
None == "None"
\* The initial value of item[3], -1 (seconds), in milliseconds.
DurationUnset == (-1) * MilliPerSec
\* The initial value of item[2].
NotReceived == 0
\* via_mx before get_mx_address has returned.
UnknownMx == "???"
OK250 == "250 OK"
Reject500 == "500 I don't care about anyone else but me..."
\* A handler left by an exception instead of a return value.
Raised == "raised"
\* The factor of "%0.2f": hundredths of a second.
Hundredths == 100
\* aiohttp.web.Response(...) returned by a view.
HttpOK == "200 OK"

\* ---- inputs --------------------------------------------------------------
\* time.time() when the process starts, a whole number of seconds.
T0 == 1000 * Sec
\* The instants at which the model reads the clock: the start, the expected
\* delivery time after it, half a millisecond later, and every later period.
Instants ==
    {T0, T0 + PROBE_EXPECTED_DELIVERY_TIME * Sec,
     T0 + PROBE_EXPECTED_DELIVERY_TIME * Sec + 1}
    \cup {T0 + k * PROBE_FREQUENCY_SECONDS * Sec : k \in 1..MaxPeriods}
\* A timestamp of a forged probe header, later than every instant.
ForgedStamp == T0 + (MaxPeriods + 1) * PROBE_FREQUENCY_SECONDS * Sec + 1
\* match is None: no line of the mail matches the X-RoundTrip-Probe pattern.
NoHeader == [id |-> -1, ts |-> 0]
\* The value of envelope before the first mail.
NoMail == [rcpt_tos |-> {}, decodable |-> TRUE, header |-> NoHeader, peer |-> None]
OtherRcpt == "someone@example.org"
\* session.peer[0]: one address is enough to tell a sender from None.
Peers == {"192.0.2.1"}
MxHosts == {"mx1.apache.org"}
\* The answers of the resolver to the MX query that does not raise.
MxAnswers == {MxHosts}
\* str(e) of the exceptions of a tick.
Errors == {"Connection refused"}

VARIABLES
    clock,                \* time.time()
    probes,               \* data.probes
    last_email_received,  \* data.last_email_received
    pc,                   \* where send_probe is: "start", "resolving",
                          \* "sending", "sleeping"
    probe_id,             \* send_probe's local probe_id
    now,                  \* send_probe's local now (whole seconds)
    via_mx,               \* send_probe's local via_mx
    wakeAt,               \* when asyncio.sleep returns
    uuids,                \* number of uuid4() calls so far
    outbox,               \* X-RoundTrip-Probe headers handed to aiosmtplib.send
    appended,             \* ids in the order of data.probes.append
    spc,                  \* where handle_DATA is: "idle", "item2", "item3", "item5"
    rx,                   \* handle_DATA's locals once a probe matched
    envelope,             \* the mail of the current or last handle_DATA call
    reply,                \* what that call returned (None: not yet)
    mails,                \* number of handle_DATA calls so far
    seconds,              \* the n of the "seconds:<n>" that GET /simple has just
                          \* answered (NoResponse: the last step was no such request)
    vpc,                  \* where latest_rt_times is: "idle", or "lookup" inside
                          \* socket.gethostbyaddr
    detail                \* what GET /detailed has just answered (NoDetail: the
                          \* last step was no such answer)

vars == <<clock, probes, last_email_received, pc, probe_id, now, via_mx, wakeAt,
          uuids, outbox, appended, spc, rx, envelope, reply, mails, seconds,
          vpc, detail>>

emitterVars == <<pc, probe_id, now, via_mx, wakeAt, uuids, outbox, appended>>
smtpVars == <<spc, rx, envelope, reply, mails>>

\* ---- pure helpers --------------------------------------------------------
\* Python's int(n / d) for d > 0: truncation towards zero.
IntTrunc(n, d) == IF n >= 0 THEN n \div d ELSE -((-n) \div d)

\* int(t) of a time t in clock units: whole seconds.
IntSeconds(t) == IntTrunc(t, Sec)

\* Diff with round(x * 1000) in the place of int(x * 1000).
DiffRounded(tnow, sent) == IntTrunc(2 * (tnow - sent) + Res, 2 * Res)

\* int((now - sent) * 1000) / 1000.0, in milliseconds.
Diff(tnow, sent) == IntTrunc(tnow - sent, Res)

\* The ids of the records of ps, in order.
Ids(ps) == [i \in 1..Len(ps) |-> ps[i].id]

\* No HTTP response has just been produced.
NoResponse == -1

\* No page of the detail view has just been produced.
NoDetail == [status |-> None, rows |-> <<>>, average_wait |-> 0]

\* handle_DATA's locals when no call is running.
NoRx == [id |-> -1, now |-> 0, diff |-> 0, peer |-> None]

Init ==
    /\ clock = T0
    /\ probes = <<>>
    /\ last_email_received = clock
    /\ pc = "start"
    /\ probe_id = 0
    /\ now = 0
    /\ via_mx = UnknownMx
    /\ wakeAt = 0
    /\ uuids = 0
    /\ outbox = {}
    /\ appended = <<>>
    /\ spc = "idle"
    /\ rx = NoRx
    /\ envelope = NoMail
    /\ reply = None
    /\ mails = 0
    /\ seconds = NoResponse
    /\ vpc = "idle"
    /\ detail = NoDetail

\* Time passes.
AdvanceClock ==
    /\ \E t \in Instants : t > clock /\ clock' = t
    /\ UNCHANGED <<probes, last_email_received, emitterVars, smtpVars>>

\* ---- get_mx_address -----------------------------------------------------
\* email.split('@')[1] of PROBE_TARGET
ProbeDomain == "apache.org"

\* The hostnames get_mx_address can return when the resolver answers with the
\* exchanges xs (none: NoAnswer, or an empty answer): exchanges[0] after
\* random.shuffle, the domain itself when there is no exchange.
get_mx_address(xs) == IF xs = {} THEN {ProbeDomain} ELSE xs

\* ---- send_probe ---------------------------------------------------------
\* Evict with pop() in the place of pop(0).
EvictNewest(ps) ==
    IF Len(ps) >= MAX_HISTORY THEN SubSeq(ps, 1, Len(ps) - 1) ELSE ps

\* if len(data.probes) >= 10000: data.probes.pop(0)
Evict(ps) == IF Len(ps) >= MAX_HISTORY THEN Tail(ps) ELSE ps

\* NewProbe with None in the place of str(e).
NewProbeNoError(id, t, err, mx) ==
    [id |-> id, sent_at |-> IntSeconds(t), received_at |-> NotReceived,
     duration |-> DurationUnset, error |-> None, receiving_peer |-> None,
     via_mx |-> mx]

\* [probe_id, int(time.time()), 0, -1, error, None, via_mx]
NewProbe(id, t, err, mx) ==
    [id |-> id, sent_at |-> IntSeconds(t), received_at |-> NotReceived,
     duration |-> DurationUnset, error |-> err, receiving_peer |-> None,
     via_mx |-> mx]

\* data.probes.append(record)
AppendProbe(ps, rec) == Append(ps, rec)

\* The header value f"{probe_id} {now}" as the correlator's float() reads it.
ProbeHeader(id, secs) == [id |-> id, ts |-> secs * Sec]

\* send_probe is at the top of its loop body: the task has just been created,
\* or asyncio.sleep(PROBE_FREQUENCY_SECONDS) returns.
AtLoopTop == pc = "start" \/ (pc = "sleeping" /\ clock >= wakeAt)

\* The main thread's event loop is running: no view is inside a blocking
\* socket.gethostbyaddr call.
Unblocked == vpc = "idle"

\* The top of the loop body: the eviction, the new id, now, via_mx = "???",
\* up to the blocking MX query of get_mx_address.
Tick ==
    /\ Unblocked
    /\ AtLoopTop
    /\ probes' = Evict(probes)
    /\ uuids' = uuids + 1
    /\ probe_id' = uuids + 1
    /\ now' = IntSeconds(clock)
    /\ via_mx' = UnknownMx
    /\ pc' = "resolving"
    /\ UNCHANGED <<clock, last_email_received, wakeAt, outbox, appended, smtpVars>>

\* The append of either branch and the start of asyncio.sleep.
RecordProbe(err) ==
    /\ probes' = AppendProbe(probes, NewProbe(probe_id, clock, err, via_mx))
    /\ appended' = Append(appended, probe_id)
    /\ pc' = "sleeping"
    /\ wakeAt' = clock + PROBE_FREQUENCY_SECONDS * Sec

\* ResolveFailed with an except branch that only prints.
ResolveFailedUnrecorded(e) ==
    /\ pc = "resolving"
    /\ pc' = "sleeping"
    /\ wakeAt' = clock + PROBE_FREQUENCY_SECONDS * Sec
    /\ UNCHANGED <<clock, probes, last_email_received, probe_id, now, via_mx,
                   uuids, outbox, appended, smtpVars>>

\* get_mx_address raises e: the except branch appends the record.
ResolveFailed(e) ==
    /\ pc = "resolving"
    /\ RecordProbe(e)
    /\ UNCHANGED <<clock, last_email_received, probe_id, now, via_mx, uuids,
                   outbox, smtpVars>>

\* get_mx_address returns mx; the message is built and handed to
\* aiosmtplib.send, which is awaited.
Resolved(mx) ==
    /\ pc = "resolving"
    /\ via_mx' = mx
    /\ outbox' = outbox \cup {ProbeHeader(probe_id, now)}
    /\ pc' = "sending"
    /\ UNCHANGED <<clock, probes, last_email_received, probe_id, now, wakeAt,
                   uuids, appended, smtpVars>>

\* SendDone without the try: an exception of aiosmtplib.send ends the task.
SendDoneUncaught(err) ==
    /\ Unblocked
    /\ pc = "sending"
    /\ IF err = None
       THEN RecordProbe(err)
       ELSE pc' = "ended" /\ UNCHANGED <<probes, appended, wakeAt>>
    /\ UNCHANGED <<clock, last_email_received, probe_id, now, via_mx, uuids,
                   outbox, smtpVars>>

\* aiosmtplib.send returned (err = None) or raised err: the record is
\* appended.
SendDone(err) ==
    /\ Unblocked
    /\ pc = "sending"
    /\ RecordProbe(err)
    /\ UNCHANGED <<clock, last_email_received, probe_id, now, via_mx, uuids,
                   outbox, smtpVars>>

Emitter ==
    \/ Tick
    \/ \E e \in Errors : ResolveFailed(e)
    \/ \E xs \in MxAnswers : \E mx \in get_mx_address(xs) : Resolved(mx)
    \/ \E err \in Errors \cup {None} : SendDone(err)

\* ---- RoundTripHandler.handle_DATA ----------------------------------------
\* The mails the SMTP server can deliver: the envelope recipients, whether
\* the content is valid UTF-8, the X-RoundTrip-Probe header the regular
\* expression finds (NoHeader: no line matches) and session.peer[0].  A header
\* is one the emitter has sent, or one with an id the emitter never issued.
ProbeHeaders == outbox \cup {[id |-> 0, ts |-> ForgedStamp]}
Mails ==
    [rcpt_tos : {{SMTPD_ME}}, decodable : {TRUE},
     header : ProbeHeaders \cup {NoHeader}, peer : Peers]
    \cup [rcpt_tos : {{OtherRcpt}}, decodable : {TRUE},
          header : ProbeHeaders \cup {NoHeader}, peer : {CHOOSE p \in Peers : TRUE}]
    \cup [rcpt_tos : {{SMTPD_ME}, {OtherRcpt}}, decodable : {FALSE},
          header : {NoHeader}, peer : {CHOOSE p \in Peers : TRUE}]

\* The index of the item the loop over reversed(self.data.probes) stops at:
\* the last one whose id is probe_id; 0 when the loop runs to its end.
LatestIndex(ps, id) ==
    IF \E i \in 1..Len(ps) : ps[i].id = id
    THEN CHOOSE i \in 1..Len(ps) :
            /\ ps[i].id = id
            /\ \A j \in 1..Len(ps) : ps[j].id = id => j <= i
    ELSE 0

\* Status without the recipient check.
StatusAnyRecipient(m) == IF ~m.decodable THEN Raised ELSE OK250

\* What handle_DATA returns for the mail m (Raised: content.decode raised).
Status(m) ==
    IF ~m.decodable THEN Raised
    ELSE IF SMTPD_ME \notin m.rcpt_tos THEN Reject500
    ELSE OK250

\* The loop of handle_DATA finds an item for the mail m.
Matches(ps, m) ==
    Status(m) = OK250 /\ m.header # NoHeader /\ LatestIndex(ps, m.header.id) # 0

\* WriteItem without the break: the write reaches every item.
WriteEveryItem(ps, id, field, value) ==
    [i \in 1..Len(ps) |-> [ps[i] EXCEPT ![field] = value]]

\* The store after a write to one field of the item the loop stopped at.  The
\* item is a reference: the write reaches it wherever it is in the list now,
\* and the store does not show it once the item is evicted.
WriteItem(ps, id, field, value) ==
    [i \in 1..Len(ps) |->
        IF ps[i].id = id THEN [ps[i] EXCEPT ![field] = value] ELSE ps[i]]

\* LastEmailReceived with the assignment moved into "if match:".
LastEmailReceivedOfProbes(m, last, t) ==
    IF m.decodable /\ SMTPD_ME \in m.rcpt_tos /\ m.header # NoHeader THEN t ELSE last

\* data.last_email_received after the first lines of handle_DATA, called at
\* time t with the mail m.
LastEmailReceived(m, last, t) == IF Status(m) = OK250 THEN t ELSE last

\* handle_DATA from its first line to the end of the search loop: the
\* recipient check, the liveness timestamp, the header, now and diff.
Receive(m) ==
    /\ spc = "idle"
    /\ mails < MaxMails
    /\ mails' = mails + 1
    /\ envelope' = m
    /\ last_email_received' = LastEmailReceived(m, last_email_received, clock)
    /\ IF Matches(probes, m)
       THEN /\ spc' = "item2"
            /\ rx' = [id |-> m.header.id, now |-> clock,
                      diff |-> Diff(clock, m.header.ts), peer |-> m.peer]
            /\ reply' = None
       ELSE /\ spc' = "idle"
            /\ rx' = NoRx
            /\ reply' = Status(m)
    /\ UNCHANGED <<clock, probes, emitterVars>>

\* item[2] = int(now)
SetReceived ==
    /\ spc = "item2"
    /\ probes' = WriteItem(probes, rx.id, "received_at", IntSeconds(rx.now))
    /\ spc' = "item3"
    /\ UNCHANGED <<clock, last_email_received, emitterVars, rx, envelope, reply, mails>>

\* item[3] = diff
SetDuration ==
    /\ spc = "item3"
    /\ probes' = WriteItem(probes, rx.id, "duration", rx.diff)
    /\ spc' = "item5"
    /\ UNCHANGED <<clock, last_email_received, emitterVars, rx, envelope, reply, mails>>

\* item[5] = peer[0]; break; return "250 OK"
SetPeer ==
    /\ spc = "item5"
    /\ probes' = WriteItem(probes, rx.id, "receiving_peer", rx.peer)
    /\ spc' = "idle"
    /\ rx' = NoRx
    /\ reply' = OK250
    /\ UNCHANGED <<clock, last_email_received, emitterVars, envelope, mails>>

Correlator ==
    \/ \E m \in Mails : Receive(m)
    \/ SetReceived
    \/ SetDuration
    \/ SetPeer

\* ---- the HTTP views -------------------------------------------------------
\* The main thread's event loop can run a request handler: it is inside
\* neither the blocking MX query of send_probe nor socket.gethostbyaddr.
LoopFree == pc # "resolving" /\ Unblocked

\* int(time.time() - data.last_email_received)
time_since_last_email(t, last) == IntTrunc(t - last, Sec)

\* simple_rt_metric with a handler that counts the request as a sign of life.
simple_rt_metric_touching ==
    /\ LoopFree
    /\ seconds' = time_since_last_email(clock, last_email_received)
    /\ last_email_received' = clock
    /\ detail' = NoDetail
    /\ UNCHANGED <<clock, probes, emitterVars, smtpVars, vpc>>

\* GET /simple
simple_rt_metric ==
    /\ LoopFree
    /\ seconds' = time_since_last_email(clock, last_email_received)
    /\ detail' = NoDetail
    /\ UNCHANGED <<clock, probes, last_email_received, emitterVars, smtpVars, vpc>>

\* socket.gethostbyaddr(peer)[0] when the lookup finds a name.
gethostbyaddr(peer) ==
    IF peer = "192.0.2.1" THEN "mta1.example.org" ELSE "mta2.example.org"

\* Window with data.probes[:30] in the place of data.probes[-30:].
WindowOldest(ps) == SubSeq(ps, 1, IF Len(ps) > MaxRows THEN MaxRows ELSE Len(ps))

\* data.probes[-30:]
Window(ps) ==
    SubSeq(ps, IF Len(ps) > MaxRows THEN Len(ps) - MaxRows + 1 ELSE 1, Len(ps))

\* reversed(xs)
Reversed(xs) == [i \in 1..Len(xs) |-> xs[Len(xs) + 1 - i]]

\* "%0.2f" % (n / d) for n in milliseconds: the nearest number of hundredths
\* of a second.
Format2(n, d) ==
    LET unit == d * (MilliPerSec \div Hundredths)
    IN IF n >= 0 THEN (2 * n + unit) \div (2 * unit)
       ELSE -((2 * (-n) + unit) \div (2 * unit))

\* The else branch of "if item[2] == 0".
Received(item) == item.received_at # NotReceived

\* tdclass with >= in the place of > in both comparisons.
tdclassInclusive(item, t) ==
    IF ~Received(item)
    THEN IF t - item.sent_at * Sec >= PROBE_EXPECTED_DELIVERY_TIME * Sec
         THEN "noshow" ELSE "pending"
    ELSE IF item.duration >= PROBE_EXPECTED_DELIVERY_TIME * MilliPerSec
         THEN "slow" ELSE "good"

\* tdclass of the row of item, rendered at time t.
tdclass(item, t) ==
    IF ~Received(item)
    THEN IF t - item.sent_at * Sec > PROBE_EXPECTED_DELIVERY_TIME * Sec
         THEN "noshow" ELSE "pending"
    ELSE IF item.duration > PROBE_EXPECTED_DELIVERY_TIME * MilliPerSec
         THEN "slow" ELSE "good"

\* how_long_ago of a row without a reception.
NotReceivedYet == [ago |-> -1, naddr |-> None, peer |-> None]

\* RESULT_ROW(probe_id, via_mx, how_long_ago, sent, recv, diff, tdclass) of
\* item, rendered at time t.  Times are whole seconds, diff is in hundredths
\* of a second; recv is a time or a text.
RESULT_ROW(item, t) ==
    [probe_id |-> item.id,
     via_mx |-> item.via_mx,
     how_long_ago |->
        IF Received(item)
        THEN [ago |-> IntTrunc(t - item.received_at * Sec, Sec) % (24 * 60 * 60),
              naddr |-> gethostbyaddr(item.receiving_peer),
              peer |-> item.receiving_peer]
        ELSE NotReceivedYet,
     sent |-> item.sent_at,
     recv |->
        IF item.error # None THEN [text |-> item.error, time |-> 0]
        ELSE IF Received(item) THEN [text |-> "", time |-> item.received_at]
        ELSE [text |-> "Roundtrip not completed yet.", time |-> 0],
     diff |-> IF Received(item) THEN Format2(item.duration, 1)
              ELSE (-1) * Hundredths,
     tdclass |-> tdclass(item, t)]

\* total_wait after the loop over items, in milliseconds.
RECURSIVE total_wait(_)
total_wait(items) ==
    IF items = <<>> THEN 0
    ELSE (IF Received(Head(items)) THEN Head(items).duration ELSE 0)
         + total_wait(Tail(items))

\* num_probes_received after the loop over items.
num_probes_received(items) ==
    Cardinality({i \in 1..Len(items) : Received(items[i])})

\* average_wait with the sum and the count taken in both branches of
\* "if item[2] == 0".
average_wait_all(items) ==
    LET RECURSIVE sum(_)
        sum(xs) == IF xs = <<>> THEN 0 ELSE Head(xs).duration + sum(Tail(xs))
    IN IF Len(items) > 0 THEN Format2(sum(items), Len(items)) ELSE 0

\* average_wait: "0", or "%0.2f" % (total_wait / num_probes_received).
average_wait(items) ==
    IF num_probes_received(items) > 0
    THEN Format2(total_wait(items), num_probes_received(items))
    ELSE 0

\* The page latest_rt_times renders from the store ps at time t.
Page(ps, t) ==
    LET items == Reversed(Window(ps))
    IN [status |-> HttpOK,
        rows |-> [i \in 1..Len(items) |-> RESULT_ROW(items[i], t)],
        average_wait |-> average_wait(items)]

\* Some row of the page calls socket.gethostbyaddr.
NeedsLookup(ps) == \E i \in 1..Len(Window(ps)) : Received(Window(ps)[i])

\* GET /detailed when no row calls gethostbyaddr: the handler runs through.
latest_rt_times ==
    /\ LoopFree
    /\ ~NeedsLookup(probes)
    /\ detail' = Page(probes, clock)
    /\ seconds' = NoResponse
    /\ UNCHANGED <<clock, probes, last_email_received, emitterVars, smtpVars, vpc>>

\* GET /detailed up to socket.gethostbyaddr, a blocking call in the main
\* thread.
LookupBegin ==
    /\ LoopFree
    /\ NeedsLookup(probes)
    /\ vpc' = "lookup"
    /\ seconds' = NoResponse
    /\ detail' = NoDetail
    /\ UNCHANGED <<clock, probes, last_email_received, emitterVars, smtpVars>>

\* The gethostbyaddr calls of the request are over: every one found a name
\* and the page is rendered (from the items as they are now), or one raised
\* (socket.herror, or TypeError for a peer that is still None) and the
\* handler is left by the exception.
LookupEnd(found) ==
    /\ vpc = "lookup"
    /\ found => \A i \in 1..Len(Window(probes)) :
                   Received(Window(probes)[i])
                   => Window(probes)[i].receiving_peer # None
    /\ vpc' = "idle"
    /\ detail' = IF found THEN Page(probes, clock)
                 ELSE [NoDetail EXCEPT !.status = Raised]
    /\ seconds' = NoResponse
    /\ UNCHANGED <<clock, probes, last_email_received, emitterVars, smtpVars>>

Reporter ==
    \/ simple_rt_metric
    \/ latest_rt_times
    \/ LookupBegin
    \/ \E found \in BOOLEAN : LookupEnd(found)

\* A step of another part of the program: no request is answered and the
\* detail view stays where it is.
Silent == seconds' = NoResponse /\ detail' = NoDetail /\ vpc' = vpc

Next ==
    \/ AdvanceClock /\ Silent
    \/ Emitter /\ Silent
    \/ Correlator /\ Silent
    \/ Reporter

Spec == Init /\ [][Next]_vars

\* The main thread alone, scheduled fairly: the event loop runs send_probe
\* whenever it is ready, the MX query and aiosmtplib.send end (with a result
\* or a timeout error), and time passes.  The SMTP thread is left out: it
\* writes nothing that send_probe's control flow reads; without it no record
\* is received, and no row of the detail view calls gethostbyaddr.
LiveNext ==
    \/ AdvanceClock /\ Silent
    \/ Emitter /\ Silent
    \/ simple_rt_metric
    \/ latest_rt_times

LiveSpec ==
    /\ Init /\ [][LiveNext]_vars
    /\ WF_vars(Emitter /\ Silent)
    /\ WF_vars(AdvanceClock /\ Silent)

\* ---- properties ------------------------------------------------------------
\* q is x / unit with the fraction cut off (towards zero).
Truncated(x, unit, q) ==
    IF x >= 0 THEN q >= 0 /\ q * unit <= x /\ x < (q + 1) * unit
    ELSE q <= 0 /\ q * unit >= x /\ x > (q - 1) * unit

\* The record r is Completed.
Completed(r) == r.received_at # NotReceived /\ r.receiving_peer # None

\* The step is the start of a handle_DATA call.
MailArrives == mails' = mails + 1

\* The last instant of the model's clock.
LastInstant == T0 + MaxPeriods * PROBE_FREQUENCY_SECONDS * Sec

\* C1: the store never holds more than MAX_HISTORY records, and the records
\* it holds are the most recently appended ones, oldest first.
C1_StoreIsLatestAppended ==
    /\ Len(probes) <= MAX_HISTORY
    /\ Len(probes) <= Len(appended)
    /\ \A i \in 1..Len(probes) :
          probes[i].id = appended[Len(appended) - Len(probes) + i]

\* More records were appended than the store holds, after failed and
\* successful ticks and a completed round trip.
C1_Witness ==
    /\ Len(appended) > MAX_HISTORY
    /\ Len(probes) = MAX_HISTORY
    /\ \E i \in 1..Len(probes) : probes[i].error # None
    /\ \E i \in 1..Len(probes) : Completed(probes[i])

\* C2: a record that is Completed keeps its received_at, duration and
\* receiving_peer for as long as it is retained.
C2_CompletedOnce ==
    [][\A i \in 1..Len(probes) : \A j \in 1..Len(probes') :
          (probes[i].id = probes'[j].id /\ Completed(probes[i]))
          => /\ probes'[j].received_at = probes[i].received_at
             /\ probes'[j].duration = probes[i].duration
             /\ probes'[j].receiving_peer = probes[i].receiving_peer]_vars

\* C3: a mail whose recipients do not include SMTPD_ME is answered with a
\* rejection, and the call changes neither the liveness timestamp nor the
\* store.
C3_ForeignMailChangesNothing ==
    [][(MailArrives /\ SMTPD_ME \notin envelope'.rcpt_tos)
       => /\ spc' = "idle"
          /\ reply' \notin {OK250, None}
          /\ UNCHANGED <<probes, last_email_received>>]_vars

\* A mail for someone else was rejected although its probe header carries
\* the id of a retained record, which is still pending.
C3_Witness ==
    /\ reply = Reject500
    /\ SMTPD_ME \notin envelope.rcpt_tos
    /\ \E i \in 1..Len(probes) :
          probes[i].id = envelope.header.id /\ probes[i].received_at = NotReceived

\* C4: when handle_DATA returns after matching the header (X, t) of an
\* accepted mail read at time now, the retained record with id X has
\* duration = now - t cut to milliseconds, received_at = now cut to seconds
\* and receiving_peer = the peer of the session.
C4_CompletionFields ==
    [][/\ (MailArrives /\ spc' = "item2")
          => rx'.now = clock /\ rx'.id = envelope'.header.id
       /\ (spc = "item5" /\ spc' = "idle")
          => \A i \in 1..Len(probes') :
                probes'[i].id = envelope.header.id
                => /\ Truncated(rx.now - envelope.header.ts, Res, probes'[i].duration)
                   /\ Truncated(rx.now, Sec, probes'[i].received_at)
                   /\ probes'[i].receiving_peer = envelope.peer]_vars

\* A call has just completed a record, and both truncations cut something off.
C4_Witness ==
    /\ spc = "idle"
    /\ reply = OK250
    /\ \E i \in 1..Len(probes) :
          /\ probes[i].id = envelope.header.id
          /\ probes[i].receiving_peer = envelope.peer
          /\ probes[i].duration * Res < clock - envelope.header.ts
          /\ (probes[i].duration + 1) * Res > clock - envelope.header.ts
          /\ probes[i].received_at * Sec < clock
          /\ (probes[i].received_at + 1) * Sec > clock

\* The record r is Pending, or Completed with all three fields.
WellFormed(r) ==
    \/ /\ r.received_at = NotReceived
       /\ r.duration = DurationUnset
       /\ r.receiving_peer = None
    \/ /\ r.received_at # NotReceived
       /\ r.duration # DurationUnset
       /\ r.receiving_peer # None

\* C5: whenever the main thread can run a view, every record of the store
\* is whole: received_at is set only together with duration and
\* receiving_peer.
C5_ReadersSeeWholeRecords ==
    LoopFree => \A i \in 1..Len(probes) : WellFormed(probes[i])

\* C6: a mail whose recipients include SMTPD_ME is answered "250 OK".
C6_AlwaysAccepted ==
    (spc = "idle" /\ SMTPD_ME \in envelope.rcpt_tos) => reply = OK250

\* C7: a mail that passes the recipient check sets the liveness timestamp to
\* the current time, with or without a probe header; nothing else changes
\* the timestamp; and GET /simple answers the whole seconds since then.
C7_Liveness ==
    [][/\ IF MailArrives /\ envelope'.decodable /\ SMTPD_ME \in envelope'.rcpt_tos
          THEN last_email_received' = clock
          ELSE last_email_received' = last_email_received
       /\ seconds' # NoResponse
          => Truncated(clock - last_email_received, Sec, seconds')]_vars

\* GET /simple has just answered a positive number of seconds, counted from
\* an accepted mail that was no probe.
C7_Witness ==
    /\ seconds > 0
    /\ reply = OK250
    /\ envelope.header = NoHeader
    /\ last_email_received > T0
    /\ seconds * Sec < clock - last_email_received

\* C8: every tick appends one record: the appended ids are 1, 2, ... without
\* a gap or a repetition, all of them once the tick is over, and the store
\* has one record for each but the evicted ones.
C8_OneRecordPerTick ==
    LET inTick == pc \in {"resolving", "sending"}
        room == IF inTick THEN MAX_HISTORY - 1 ELSE MAX_HISTORY
    IN /\ Len(appended) = (IF inTick THEN uuids - 1 ELSE uuids)
       /\ \A i \in 1..Len(appended) : appended[i] = i
       /\ Len(probes) = (IF Len(appended) < room THEN Len(appended) ELSE room)

\* Three ticks are over; the record before the last is of a tick that
\* failed, and the one of the tick before it has not come back.
C8_Witness ==
    /\ pc = "sleeping"
    /\ uuids >= 3
    /\ Len(probes) >= 2
    /\ probes[Len(probes)].error = None
    /\ probes[Len(probes) - 1].error # None
    /\ probes[Len(probes) - 1].received_at = NotReceived

C10_FailedRecord ==
    [][\A e \in Errors :
          (ResolveFailed(e) \/ SendDone(e))
          => LET r == probes'[Len(probes')]
             IN /\ Len(probes') = Len(probes) + 1
                /\ r.id = probe_id
                /\ r.error = e
                /\ r.received_at = NotReceived
                /\ r.duration = DurationUnset
                /\ r.via_mx = via_mx
                /\ pc = "resolving" => r.via_mx = UnknownMx
                /\ pc = "sending" => r.via_mx \in MxHosts \cup {ProbeDomain}]_vars

\* The store holds the record of a tick that failed during resolution and
\* the record of a tick that failed during sending.
C10_Witness ==
    \E i, j \in 1..Len(probes) :
        /\ probes[i].error \in Errors /\ probes[i].via_mx = UnknownMx
        /\ probes[j].error \in Errors /\ probes[j].via_mx \in MxHosts
        /\ probes[i].received_at = NotReceived /\ probes[i].duration = DurationUnset
        /\ probes[j].received_at = NotReceived /\ probes[j].duration = DurationUnset

\* The record the k-th row of the page just answered was rendered from.
RowRecord(k) == probes[Len(probes) + 1 - k]

\* C11: the class of a row of the detail view.  For a record without a
\* reception it is "noshow" exactly when more than
\* PROBE_EXPECTED_DELIVERY_TIME seconds have passed since sent_at, and
\* "pending" otherwise; for a record with a reception it is "slow" exactly
\* when the duration is more than PROBE_EXPECTED_DELIVERY_TIME seconds, and
\* "good" otherwise.
C11_StatusClass ==
    detail.status = HttpOK
    => \A k \in 1..Len(detail.rows) :
          LET r == RowRecord(k)
              c == detail.rows[k].tdclass
          IN IF r.received_at = NotReceived
             THEN /\ c \in {"noshow", "pending"}
                  /\ c = "noshow"
                     <=> clock - r.sent_at * Sec > PROBE_EXPECTED_DELIVERY_TIME * Sec
             ELSE /\ c \in {"slow", "good"}
                  /\ c = "slow"
                     <=> r.duration > PROBE_EXPECTED_DELIVERY_TIME * MilliPerSec

\* The page shows as pending a record sent exactly
\* PROBE_EXPECTED_DELIVERY_TIME seconds ago.
C11_Witness ==
    /\ detail.status = HttpOK
    /\ Len(detail.rows) > 0
    /\ detail.rows[1].tdclass = "pending"
    /\ clock - RowRecord(1).sent_at * Sec = PROBE_EXPECTED_DELIVERY_TIME * Sec

\* The indices of the records of the store that latest_rt_times shows: the
\* last MaxRows ones.
Shown == {i \in 1..Len(probes) : i > Len(probes) - MaxRows}

\* The sum of the durations (milliseconds) of the records of the store with
\* an index in S.
RECURSIVE SumOfDurations(_)
SumOfDurations(S) ==
    IF S = {} THEN 0
    ELSE LET i == CHOOSE j \in S : TRUE
         IN probes[i].duration + SumOfDurations(S \ {i})

C13_LookupFailureTolerated ==
    [][(vpc = "lookup" /\ vpc' = "idle" /\ \A i \in Shown : WellFormed(probes[i]))
       => /\ detail'.status = HttpOK
          /\ Len(detail'.rows) = Cardinality(Shown)
          /\ \A k \in 1..Len(detail'.rows) :
                RowRecord(k).received_at # NotReceived
                => detail'.rows[k].how_long_ago.peer = RowRecord(k).receiving_peer]_vars

\* C14: while a request of the detail view waits in gethostbyaddr for the
\* name of a peer, the rest of the main thread goes on: GET /simple can be
\* answered, a tick that is due can start, and a send that is over can be
\* recorded.
C14_LookupBlocksOnlyItself ==
    (vpc = "lookup" /\ \A i \in Shown : WellFormed(probes[i]))
    => /\ ENABLED simple_rt_metric
       /\ AtLoopTop => ENABLED (Tick /\ Silent)
       /\ pc = "sending" => ENABLED (SendDone(None) /\ Silent)

\* C15: a step of a view (GET /simple answered, GET /detailed entering or
\* leaving gethostbyaddr, or answered) changes neither the store nor the
\* liveness timestamp.
C15_ViewsReadOnly ==
    [][(seconds' # NoResponse \/ detail'.status # None \/ vpc' # vpc)
       => UNCHANGED <<probes, last_email_received>>]_vars

\* A page has just been answered after a reverse lookup, from a store that
\* holds more records than the page shows.
C15_Witness ==
    /\ detail.status = HttpOK
    /\ Len(detail.rows) > 0
    /\ detail.rows[1].how_long_ago.naddr # None
    /\ Len(probes) > Len(detail.rows)

\* C16: the sent_at of every record of the store is the time its tick took at
\* its start: the one in the X-RoundTrip-Probe header of its probe, if the
\* tick got as far as a message, and the tick's local now.
C16_SentAtIsTickStart ==
    \A i \in 1..Len(probes) :
        /\ \A h \in outbox : h.id = probes[i].id => probes[i].sent_at * Sec = h.ts
        /\ probes[i].id = probe_id => probes[i].sent_at = now

\* C17: the step that removes a record from the store is the step that
\* inserts the new one: the store never loses a record without gaining the
\* record that displaces it, so a full store stays full.
C17_EvictAndInsertAtOnce ==
    [][(\E i \in 1..Len(probes) :
           \A j \in 1..Len(probes') : probes'[j].id # probes[i].id)
       => /\ Len(appended') = Len(appended) + 1
          /\ Len(probes') = Len(probes)
          /\ probes'[Len(probes')].id = appended'[Len(appended')]]_vars

\* C18: a step of handle_DATA keeps the length and the order of the store
\* and the id, sent_at, error and via_mx of every record; a record it
\* changes is the last one of the store with the id of the probe header of
\* the mail, which was addressed to SMTPD_ME.  So a mail without a probe
\* header, or with an id no retained record has, changes nothing.
C18_OneRecordMutated ==
    [][(mails' # mails \/ spc' # spc)
       => /\ Len(probes') = Len(probes)
          /\ \A i \in 1..Len(probes) :
                /\ probes'[i].id = probes[i].id
                /\ probes'[i].sent_at = probes[i].sent_at
                /\ probes'[i].error = probes[i].error
                /\ probes'[i].via_mx = probes[i].via_mx
                /\ probes'[i] # probes[i]
                   => /\ SMTPD_ME \in envelope'.rcpt_tos
                      /\ envelope'.header # NoHeader
                      /\ probes[i].id = envelope'.header.id
                      /\ \A j \in 1..Len(probes) :
                            probes[j].id = envelope'.header.id => j <= i]_vars

\* A call has completed one of the two records of the store, and the other
\* one is still as it was appended.
C18_Witness ==
    /\ spc = "idle"
    /\ reply = OK250
    /\ Len(probes) >= 2
    /\ \E i, j \in 1..Len(probes) :
          /\ probes[i].id = envelope.header.id
          /\ probes[i].receiving_peer = envelope.peer
          /\ j # i
          /\ probes[j].received_at = NotReceived
          /\ probes[j].receiving_peer = None

C20_RecordThereBeforeReply ==
    [][(/\ MailArrives
        /\ Status(envelope') = OK250
        /\ envelope'.header \in outbox
        /\ uuids - envelope'.header.id < MAX_HISTORY)
       => spc' = "item2"]_vars
====
